---- MODULE Spec2Model ----
(***************************************************************************)
(* streamlit_app.py: the tweet viewer's script, as a state machine.        *)
(*                                                                         *)
(* Streamlit runs the script top to bottom once per user interaction.  A   *)
(* run is modelled in two steps: Rerun is the script from its top to the   *)
(* display of the current tweet (lines 27-127: widgets read, filtered list *)
(* computed, st.stop() on an empty list, cursor revalidated), and the      *)
(* button step is lines 129-161, where the one button whose click caused   *)
(* the run returns True and its handler mutates st.session_state.  A click *)
(* on a button of the page is taken to reach its handler in the run it     *)
(* causes, unless that run stops before the buttons.  The script has no    *)
(* st.rerun(): what a handler writes is first read by the next run.  Load  *)
(* is lines 10-25 (load_data and data.sort).                               *)
(*                                                                         *)
(* Texts.  A text the code searches is a sequence of one-character         *)
(* strings.  A date text is a record [form, day]:                          *)
(*   "iso"       2021-05-<day>T00:00:00                                    *)
(*   "isoZ"      2021-05-<day>T00:00:00Z                                   *)
(*   "isoOffset" 2021-05-<day>T00:00:00+00:00                              *)
(*   "slash"     2021/05/<day>                                             *)
(*   "placeholder" the literal YYYY/MM/DD      "garbage" bad-date          *)
(* and NoDate is a record without the tweetDate key (tweet.get gives None).*)
(* The date range text is a sequence of such tokens, of Dash ("-") and of  *)
(* Space (" ").  A list comprehension is SelectSeq.                         *)
(* Python record indices are 0-based: index i is data[i + 1] here.         *)
(***************************************************************************)
EXTENDS Integers, Sequences, FiniteSets, TLC

VARIABLES
    tweets_json,          \* content of tweets.json (what load_data returns)
    data,                 \* the sorted record list (module-level `data`)
    pc,                   \* "load" | "ready" | "buttons" | "crashed"
    index,                \* st.session_state.index
    annotations,          \* st.session_state.annotations: index -> annotation
    bookmarks,            \* st.session_state.bookmarks
    show_only_bookmarked, \* st.session_state.show_only_bookmarked
    tag_filter,           \* value of the tag selectbox in the latest run
    search_keyword,       \* value of the keyword text input in the latest run
    date_range,           \* value of the date range text input in the latest run
    filtered_indices,     \* script local of the run in progress
    current_index,        \* script local of the run in progress
    current_position,     \* script local of the run in progress
    pressed,              \* the button whose click caused the run in progress
    entered,              \* st.session_state.tag, .note and .user (the text inputs)
    screen,               \* what the latest run left on the page
    export_file,          \* content of annotations_export.json
    toggled               \* bookmark set before the latest run, if that run toggled

vars == <<tweets_json, data, pc, index, annotations, bookmarks,
          show_only_bookmarked, tag_filter, search_keyword, date_range,
          filtered_indices, current_index, current_position, pressed, entered,
          screen, export_file, toggled>>

----------------------------------------------------------------------------
(* Bounds *)

\* longest record collection drawn by the load and filter specifications
MaxRecords == 3

----------------------------------------------------------------------------
(* Values *)

NoDate == [form |-> "none", day |-> 0]
Date(form, day) == [form |-> form, day |-> day]

Tweet(content, tweetDate, tweetUrl) ==
    [content |-> content, tweetDate |-> tweetDate, tweetUrl |-> tweetUrl]

\* Python's range(n) as a list
RECURSIVE range(_)
range(n) == IF n <= 0 THEN <<>> ELSE Append(range(n - 1), n - 1)

\* the members of a list
Elems(s) == {s[k] : k \in 1..Len(s)}

\* Python's `x in list`
InList(x, s) == x \in Elems(s)

\* list.index(x): 0-based position of the first occurrence
ListIndex(s, x) == (CHOOSE k \in 1..Len(s) : s[k] = x /\ \A j \in 1..(k - 1) : s[j] # x) - 1

\* Python's `kw in text` on strings: kw occurs as a contiguous run
SubstringIn(kw, text) ==
    \E k \in 0..(Len(text) - Len(kw)) :
        \A j \in 1..Len(kw) : text[k + j] = kw[j]

----------------------------------------------------------------------------
(* Dates: lines 19-23 *)

datetime_min == [aware |-> FALSE, t |-> 0]

\* str.replace("Z", "+00:00")
replace_Z(text) ==
    IF text.form = "isoZ" THEN [text EXCEPT !.form = "isoOffset"] ELSE text

\* datetime.fromisoformat: a datetime, or ValueError
fromisoformat(text) ==
    CASE text.form = "iso" -> [ok |-> TRUE, aware |-> FALSE, t |-> text.day]
      [] text.form = "isoOffset" -> [ok |-> TRUE, aware |-> TRUE, t |-> text.day]
      [] OTHER -> [ok |-> FALSE, aware |-> FALSE, t |-> 0]

safe_parse_date(tweet) ==
    IF tweet.tweetDate = NoDate
    THEN datetime_min                      \* None.replace: AttributeError
    ELSE LET r == fromisoformat(replace_Z(tweet.tweetDate))
         IN  IF r.ok THEN [aware |-> r.aware, t |-> r.t] ELSE datetime_min

\* datetime ordering: comparing a naive with an aware datetime raises TypeError
Comparable(a, b) == a.aware = b.aware
datetime_le(a, b) == a.t <= b.t
datetime_lt(a, b) == a.t < b.t

----------------------------------------------------------------------------
(* Load: lines 10-25 *)

\* list.sort(key=...) raises when two keys it has to compare are not comparable;
\* ordering a list with both kinds of key needs at least one such comparison
SortRaises(raw) ==
    \E a, b \in 1..Len(raw) :
        ~Comparable(safe_parse_date(raw[a]), safe_parse_date(raw[b]))

\* insert r behind every record whose key is not greater (stable)
RECURSIVE InsertByKey(_, _)
InsertByKey(r, s) ==
    IF s = <<>> THEN <<r>>
    ELSE IF datetime_lt(safe_parse_date(r), safe_parse_date(Head(s)))
         THEN <<r>> \o s
         ELSE <<Head(s)>> \o InsertByKey(r, Tail(s))

\* the orders a sort that raised can leave the list in
Reorderings(raw) ==
    { [k \in 1..Len(raw) |-> raw[perm[k]]] :
        perm \in { q \in [1..Len(raw) -> 1..Len(raw)] :
                     \A a, b \in 1..Len(raw) : a # b => q[a] # q[b] } }

RECURSIVE SortByDate(_)
SortByDate(raw) ==
    IF raw = <<>> THEN <<>>
    ELSE InsertByKey(raw[Len(raw)], SortByDate(SubSeq(raw, 1, Len(raw) - 1)))

----------------------------------------------------------------------------
(* The date range text: lines 69-73 *)

Dash == [form |-> "-", day |-> 0]
Space == [form |-> " ", day |-> 0]
Placeholder == [form |-> "placeholder", day |-> 0]

\* str.split("-")
RECURSIVE split(_)
split(text) ==
    IF ~InList(Dash, text) THEN <<text>>
    ELSE LET k == CHOOSE k \in 1..Len(text) :
                      text[k] = Dash /\ \A j \in 1..(k - 1) : text[j] # Dash
         IN  <<SubSeq(text, 1, k - 1)>> \o split(SubSeq(text, k + 1, Len(text)))

\* str.strip()
RECURSIVE strip(_)
strip(text) ==
    IF text = <<>> THEN text
    ELSE IF Head(text) = Space THEN strip(Tail(text))
    ELSE IF text[Len(text)] = Space THEN strip(SubSeq(text, 1, Len(text) - 1))
    ELSE text

\* datetime.strptime(text, "%Y/%m/%d"): a naive datetime, or ValueError
strptime(text) ==
    IF Len(text) = 1 /\ text[1].form = "slash"
    THEN [ok |-> TRUE, aware |-> FALSE, t |-> text[1].day]
    ELSE [ok |-> FALSE, aware |-> FALSE, t |-> 0]

----------------------------------------------------------------------------
(* The filter: lines 42-82 *)

\* line 45: the options of the tag selectbox
tag_options(ann) == {"All"} \cup {ann[i].tag : i \in {j \in DOMAIN ann : ann[j].tag # ""}}

\* (variant) line 61 without the comparison of the tag
TagFilteredAnyTag(f, ann, tf) ==
    IF tf # "All" THEN SelectSeq(f, LAMBDA i : i \in DOMAIN ann) ELSE f

\* lines 58-62
TagFiltered(f, ann, tf) ==
    IF tf # "All"
    THEN SelectSeq(f, LAMBDA i : i \in DOMAIN ann /\ ann[i].tag = tf)
    ELSE f

\* lines 64-67
KeywordFiltered(f, d, kw) ==
    IF kw # <<>>
    THEN SelectSeq(f, LAMBDA i : SubstringIn(kw, d[i + 1].content))
    ELSE f

\* lines 69-79: any exception inside the try leaves the list as it was
DateFiltered(f, d, dr) ==
    IF dr # <<>> /\ InList(Dash, dr)
    THEN LET parts == split(dr)
         IN  IF Len(parts) # 2 THEN f        \* unpacking: ValueError
             ELSE LET start_date == strptime(strip(parts[1]))
                      end_date == strptime(strip(parts[2]))
                  IN  IF ~start_date.ok \/ ~end_date.ok THEN f   \* ValueError
                      ELSE IF \E i \in Elems(f) :
                                  ~Comparable(start_date, safe_parse_date(d[i + 1]))
                           THEN f                                 \* TypeError
                           ELSE SelectSeq(f, LAMBDA i :
                                    /\ datetime_le(start_date, safe_parse_date(d[i + 1]))
                                    /\ datetime_le(safe_parse_date(d[i + 1]), end_date))
    ELSE f

\* lines 81-82
BookmarkFiltered(f, bm, bo) ==
    IF bo THEN SelectSeq(f, LAMBDA i : i \in bm) ELSE f

\* lines 56-82
FilteredIndices(d, ann, bm, tf, kw, dr, bo) ==
    BookmarkFiltered(
        DateFiltered(
            KeywordFiltered(TagFiltered(range(Len(d)), ann, tf), d, kw),
            d, dr),
        bm, bo)

----------------------------------------------------------------------------
(* Annotations and the export: lines 97-99, 137-144, 158-160 *)

\* line 98: tweet.get("tweetDate", "Unknown date")
DisplayedDate(tweet) ==
    IF tweet.tweetDate = NoDate THEN Date("Unknown date", 0) ELSE tweet.tweetDate

\* lines 137-144: the dict the save handler stores
Annotation(tweet, tag, note, user) ==
    [tag |-> tag, note |-> note, content |-> tweet.content,
     date |-> DisplayedDate(tweet), user |-> user, url |-> tweet.tweetUrl]

\* str(i), the text json.dump writes for an int key
Digits == <<"0", "1", "2", "3", "4", "5", "6", "7", "8", "9">>
RECURSIVE str(_)
str(i) == IF i < 10 THEN <<Digits[i + 1]>>
          ELSE Append(str(i \div 10), Digits[(i % 10) + 1])

\* a dict key as Python compares it: its type and its text
IntKey(i) == [type |-> "int", text |-> str(i)]
StrKey(text) == [type |-> "str", text |-> text]

\* the items of st.session_state.annotations
Items(ann) == {[key |-> IntKey(i), value |-> ann[i]] : i \in DOMAIN ann}

\* line 160: json.dump writes a JSON object; its member names are strings
json_dump(ann) == {[name |-> str(i), value |-> ann[i]] : i \in DOMAIN ann}

\* json.load of the exported file: the items of the dict it returns
json_load(members) == {[key |-> StrKey(m.name), value |-> m.value] : m \in members}

NoFile == [written |-> FALSE, members |-> {}]

----------------------------------------------------------------------------
(* Inputs *)

\* what the analyst types into the tag, note and user fields before saving
SaveInputs ==
    { [tag |-> "grief", note |-> "n", user |-> "someone"],
      [tag |-> "", note |-> "", user |-> "someone"] }
Tags == {"grief", "Grief"}
Keywords == {<<>>, <<"a">>}
DateRanges ==
    { <<Placeholder, Space, Dash, Space, Placeholder>>,
      <<Date("slash", 1), Space, Dash, Space, Date("slash", 2)>> }
Buttons == {"none", "bookmark", "save", "previous", "random", "next", "export"}

\* tweets.json of the session: a dated tweet and one whose date does not parse
Fixture ==
    << Tweet(<<"a", "b">>, Date("iso", 2), "u0"),
       Tweet(<<"A", "b">>, Date("garbage", 0), "u1") >>

----------------------------------------------------------------------------
(* The script *)

NoLocals ==
    /\ filtered_indices' = <<>>
    /\ current_index' = -1
    /\ current_position' = -1
    /\ pressed' = "none"

\* lines 27-37 and the widget defaults, before the first run
SessionInit ==
    /\ index = 0
    /\ annotations = <<>>
    /\ bookmarks = {}
    /\ show_only_bookmarked = FALSE
    /\ tag_filter = "All"
    /\ search_keyword = <<>>
    /\ date_range = <<Placeholder, Space, Dash, Space, Placeholder>>
    /\ filtered_indices = <<>>
    /\ current_index = -1
    /\ current_position = -1
    /\ pressed = "none"
    /\ entered = [tag |-> "", note |-> "", user |-> "someone"]
    /\ screen = "blank"
    /\ export_file = NoFile
    /\ toggled = {}

Init ==
    /\ tweets_json = Fixture
    /\ data = <<>>
    /\ pc = "load"
    /\ SessionInit

\* lines 10-25: load_data, then data.sort(key=safe_parse_date)
Load ==
    /\ pc = "load"
    /\ IF SortRaises(tweets_json)
       THEN /\ pc' = "crashed"              \* TypeError ends the script
            /\ data' \in Reorderings(tweets_json)
       ELSE /\ pc' = "ready"
            /\ data' = SortByDate(tweets_json)
    /\ UNCHANGED <<tweets_json, index, annotations, bookmarks, show_only_bookmarked,
                   tag_filter, search_keyword, date_range, filtered_indices,
                   current_index, current_position, pressed, entered, screen,
                   export_file, toggled>>

\* (variant) line 89 without its condition: the cursor always goes to the first
RevalidatedAlways(i, f) == f[1]

\* lines 88-90
Revalidated(i, f) == IF InList(i, f) THEN i ELSE f[1]

\* lines 39-127: one run of the script up to the buttons, caused by a change of
\* the filter widgets (button = "none") or by a click on a button of the page
Rerun(tf, kw, dr, bo, button, texts) ==
    /\ pc = "ready"
    /\ entered' = texts
    /\ tf \in tag_options(annotations)
    /\ button # "none" => screen = "tweet"
    /\ tag_filter' = tf
    /\ search_keyword' = kw
    /\ date_range' = dr
    /\ show_only_bookmarked' = bo
    /\ \E f \in {FilteredIndices(data, annotations, bookmarks, tf, kw, dr, bo)} :
           IF f = <<>>
           THEN /\ pc' = "ready"              \* lines 84-86: st.stop()
                /\ screen' = "warning"
                /\ NoLocals
                /\ toggled' = {}
                /\ UNCHANGED index
           ELSE /\ pc' = "buttons"
                /\ screen' = "tweet"
                /\ index' = Revalidated(index, f)
                /\ filtered_indices' = f
                /\ current_index' = index'
                /\ current_position' = ListIndex(f, index')
                /\ pressed' = button
                /\ toggled' = IF /\ button = "bookmark"
                                 /\ <<tf, kw, dr, bo>> =
                                    <<tag_filter, search_keyword, date_range,
                                      show_only_bookmarked>>
                              THEN toggled ELSE {}
    /\ UNCHANGED <<tweets_json, data, annotations, bookmarks, export_file>>

\* the script runs to its end
EndOfScript ==
    /\ pc' = "ready"
    /\ NoLocals
    /\ UNCHANGED <<tweets_json, data, show_only_bookmarked, tag_filter,
                   search_keyword, date_range, entered, screen>>

\* no button returned True
NoButton ==
    /\ pc = "buttons" /\ pressed = "none"
    /\ EndOfScript
    /\ UNCHANGED <<index, annotations, bookmarks, export_file, toggled>>

\* (variant) line 134 adds the 1-based number shown on the page
ToggleShownNumber(bm, i) == IF i \in bm THEN bm \ {i} ELSE bm \cup {i + 1}

\* (variant) lines 131-132 left out
ToggleOnlyAdds(bm, i) == bm \cup {i}

\* lines 131-134
Toggle(bm, i) == IF i \in bm THEN bm \ {i} ELSE bm \cup {i}

\* lines 129-134
Bookmark ==
    /\ pc = "buttons" /\ pressed = "bookmark"
    /\ bookmarks' = Toggle(bookmarks, current_index)
    /\ toggled' = {bookmarks}
    /\ EndOfScript
    /\ UNCHANGED <<index, annotations, export_file>>

\* (variant) dict.setdefault: an existing annotation is kept
SavedIfAbsent(ann, i, value) ==
    [j \in DOMAIN ann \cup {i} |-> IF j \in DOMAIN ann THEN ann[j] ELSE value]

\* lines 137-144: annotations[current_index] = {...}
Saved(ann, i, value) ==
    [j \in DOMAIN ann \cup {i} |-> IF j = i THEN value ELSE ann[j]]

\* lines 136-145
Save ==
    /\ pc = "buttons" /\ pressed = "save"
    /\ annotations' = Saved(annotations, current_index,
                            Annotation(data[current_index + 1],
                                       entered.tag, entered.note, entered.user))
    /\ toggled' = {}
    /\ EndOfScript
    /\ UNCHANGED <<index, bookmarks, export_file>>

\* line 150
PreviousIndex(f, p) == f[(IF p - 1 > 0 THEN p - 1 ELSE 0) + 1]
\* (variant) line 156 wrapping around instead of clamping
NextIndexWraps(f, p) == f[((p + 1) % Len(f)) + 1]
\* line 156
NextIndex(f, p) == f[(IF p + 1 < Len(f) - 1 THEN p + 1 ELSE Len(f) - 1) + 1]
\* line 153: random.choice
RandomChoices(f) == Elems(f)

Navigate(i) ==
    /\ index' = i
    /\ toggled' = {}
    /\ EndOfScript
    /\ UNCHANGED <<annotations, bookmarks, export_file>>

\* lines 149-150
Previous ==
    /\ pc = "buttons" /\ pressed = "previous"
    /\ Navigate(PreviousIndex(filtered_indices, current_position))

\* lines 152-153
Random ==
    /\ pc = "buttons" /\ pressed = "random"
    /\ \E i \in RandomChoices(filtered_indices) : Navigate(i)

\* lines 155-156
NextTweet ==
    /\ pc = "buttons" /\ pressed = "next"
    /\ Navigate(NextIndex(filtered_indices, current_position))

\* lines 158-161
Export ==
    /\ pc = "buttons" /\ pressed = "export"
    /\ export_file' = [written |-> TRUE, members |-> json_dump(annotations)]
    /\ toggled' = {}
    /\ EndOfScript
    /\ UNCHANGED <<index, annotations, bookmarks>>

\* the analyst changes the filter widgets (or leaves them): a run with no button
FilterChange ==
    \E tf \in Tags \cup {"All"}, kw \in Keywords, dr \in DateRanges, bo \in BOOLEAN :
        Rerun(tf, kw, dr, bo, "none", entered)

\* the analyst clicks a button of the page: a run with the filter widgets as
\* they are (the selectbox falls back to "All" when its options changed); before
\* clicking save the analyst has typed the tag and the note
Click ==
    \E button \in Buttons \ {"none"} :
        \E tf \in {"All"} \cup ({tag_filter} \cap tag_options(annotations)) :
            \E texts \in (IF button = "save" THEN SaveInputs ELSE {entered}) :
                Rerun(tf, search_keyword, date_range, show_only_bookmarked,
                      button, texts)

Next ==
    \/ Load
    \/ FilterChange
    \/ Click
    \/ NoButton
    \/ Bookmark
    \/ Save
    \/ Previous
    \/ Random
    \/ NextTweet
    \/ Export

Spec == Init /\ [][Next]_vars

----------------------------------------------------------------------------
(* Loading any collection *)

Collections(pool, n) == UNION {[1..k -> pool] : k \in 0..n}

LoadPool ==
    { Tweet(<<"a", "b">>, Date("iso", 2), "u"),
      Tweet(<<"A", "b">>, Date("iso", 1), "u"),
      Tweet(<<"b">>, Date("isoZ", 1), "u"),
      Tweet(<<>>, Date("isoZ", 2), "u"),
      Tweet(<<"a">>, Date("garbage", 0), "u"),
      Tweet(<<"a", "b">>, NoDate, "u"),
      Tweet(<<"b">>, Date("slash", 1), "u") }

InitLoad ==
    /\ tweets_json \in Collections(LoadPool, MaxRecords)
    /\ data = <<>>
    /\ pc = "load"
    /\ SessionInit

NextLoad == Load

SpecLoad == InitLoad /\ [][NextLoad]_vars

----------------------------------------------------------------------------
(* Filtering any session: the stores an analyst can have built, with the     *)
(* filter widgets as just set and the run they cause still to come           *)

Indices(d) == 0..(Len(d) - 1)

\* the annotation stores whose tags are in `tags`
Stores(d, tags) ==
    { [i \in DOMAIN tagOf |-> Annotation(d[i + 1], tagOf[i], "", "someone")] :
        tagOf \in UNION {[D -> tags] : D \in SUBSET Indices(d)} }

ContentPool ==
    { Tweet(<<"a", "b">>, Date("iso", 1), "u"),
      Tweet(<<"A", "b">>, Date("iso", 1), "u") }

DatePool ==
    { Tweet(<<"a", "b">>, Date("iso", 1), "u"),
      Tweet(<<"a", "b">>, Date("iso", 3), "u"),
      Tweet(<<"a", "b">>, Date("slash", 1), "u"),
      Tweet(<<"a", "b">>, Date("slash", 2), "u"),
      Tweet(<<"b">>, Date("garbage", 0), "u"),
      Tweet(<<"a", "b">>, Date("isoZ", 1), "u"),
      Tweet(<<"b">>, Date("isoZ", 3), "u") }

Digits4 == Date("digits", 0)
DateRangeTexts ==
    { <<Placeholder, Space, Dash, Space, Placeholder>>,
      <<>>,
      <<Date("slash", 1)>>,
      <<Date("slash", 1), Space, Dash, Space, Date("slash", 2)>>,
      <<Date("slash", 2), Dash, Date("slash", 3)>>,
      <<Date("slash", 3), Space, Dash, Space, Date("slash", 1)>>,
      <<Date("slash", 1), Space, Dash, Space, Date("garbage", 0)>>,
      <<Date("iso", 1), Space, Dash, Space, Date("iso", 2)>>,
      <<Digits4, Dash, Digits4, Dash, Digits4, Space, Dash, Space,
        Digits4, Dash, Digits4, Dash, Digits4>> }

Loaded(raw) ==
    /\ ~SortRaises(raw)
    /\ tweets_json = raw
    /\ data = SortByDate(raw)
    /\ pc = "ready"
    /\ index = 0
    /\ filtered_indices = <<>>
    /\ current_index = -1
    /\ current_position = -1
    /\ pressed = "none"
    /\ entered = [tag |-> "", note |-> "", user |-> "someone"]
    /\ screen = "blank"
    /\ export_file = NoFile
    /\ toggled = {}

\* tags, keywords and bookmarks vary; the date range is left at its placeholder
InitStores ==
    \E raw \in Collections(ContentPool, MaxRecords) :
        /\ Loaded(raw)
        /\ annotations \in Stores(data, {"grief", "Grief"})
        /\ bookmarks \in SUBSET Indices(data)
        /\ tag_filter \in tag_options(annotations)
        /\ search_keyword \in Keywords
        /\ date_range = <<Placeholder, Space, Dash, Space, Placeholder>>
        /\ show_only_bookmarked \in BOOLEAN

\* dates, date ranges and keywords vary
InitDates ==
    \E raw \in Collections(DatePool, MaxRecords) :
        /\ Loaded(raw)
        /\ annotations = <<>>
        /\ bookmarks = {}
        /\ tag_filter = "All"
        /\ search_keyword \in Keywords
        /\ date_range \in DateRangeTexts
        /\ show_only_bookmarked = FALSE

InitFilter == InitStores \/ InitDates

\* a run with the widgets as they are
FilterRun ==
    Rerun(tag_filter, search_keyword, date_range, show_only_bookmarked, "none", entered)

NextFilter == FilterRun \/ NoButton

SpecFilter == InitFilter /\ [][NextFilter]_vars

----------------------------------------------------------------------------
(* Properties *)

ScriptRan == pc \in {"ready", "buttons"}
Displaying == pc = "buttons"
Stopped == pc = "ready" /\ screen = "warning"
Handling(button) == pc = "buttons" /\ pressed = button

\* the filtered list of the current records, annotations, bookmarks and criteria
CurrentFiltered ==
    FilteredIndices(data, annotations, bookmarks, tag_filter, search_keyword,
                    date_range, show_only_bookmarked)

\* C1 (as claimed): in every session state, whenever the filtered list computed
\* from the current records, annotations, bookmarks and filter criteria is
\* non-empty, the cursor index is a member of it
C1_CursorAlwaysInFilteredList ==
    ScriptRan => (CurrentFiltered # <<>> => InList(index, CurrentFiltered))

\* C2: a run of the script with filtered list F either stops (F empty: nothing
\* displayed, no button handled, cursor untouched) or displays with F non-empty
\* and the cursor in F, reset to F[0] if it was absent from F and unchanged if it
\* was present; every handler finds the cursor in the F of its run
C2_CursorRevalidatedBeforeDisplay ==
    [][ /\ pc = "ready" =>
            LET f == FilteredIndices(data', annotations', bookmarks', tag_filter',
                                     search_keyword', date_range',
                                     show_only_bookmarked')
            IN  /\ f = <<>> => /\ pc' = "ready"
                               /\ screen' = "warning"
                               /\ pressed' = "none"
                               /\ index' = index
                /\ f # <<>> => /\ pc' = "buttons"
                               /\ screen' = "tweet"
                               /\ filtered_indices' = f
                               /\ current_index' = index'
                               /\ InList(index', f)
                               /\ InList(index, f) => index' = index
                               /\ ~InList(index, f) => index' = f[1]
        /\ pc = "buttons" => /\ filtered_indices # <<>>
                             /\ InList(index, filtered_indices)
                             /\ current_index = index
                             /\ pc' = "ready"
        /\ pressed # "none" => pc = "buttons"
      ]_vars

\* C2 witness: a tweet is displayed after the cursor left index 0 for the only
\* member of a filtered list that excludes index 0
C2_Witness ==
    /\ Displaying
    /\ filtered_indices = <<1>>
    /\ index = 1
    /\ search_keyword = <<"a">>

StrictlyAscending(f) == \A k \in 1..(Len(f) - 1) : f[k] < f[k + 1]

\* text contains kw as a contiguous run of characters, compared exactly
HasRun(text, kw) ==
    \E a \in 1..(Len(text) + 1), b \in 0..Len(text) : SubSeq(text, a, b) = kw

\* the indices that satisfy the enabled tag, keyword and bookmark predicates
Matching ==
    { i \in 0..(Len(data) - 1) :
        /\ tag_filter # "All" => i \in DOMAIN annotations /\ annotations[i].tag = tag_filter
        /\ search_keyword # <<>> => HasRun(data[i + 1].content, search_keyword)
        /\ show_only_bookmarked => i \in bookmarks }

\* the range text is two date tokens YYYY/MM/DD around a single "-"
RangeApplies(dr) ==
    \E k \in 1..Len(dr) :
        /\ dr[k] = Dash
        /\ \A j \in 1..Len(dr) : dr[j] = Dash => j = k
        /\ strptime(strip(SubSeq(dr, 1, k - 1))).ok
        /\ strptime(strip(SubSeq(dr, k + 1, Len(dr)))).ok

\* C3: the filtered list of a run is strictly ascending and holds only indices
\* that satisfy every enabled tag, keyword and bookmark predicate, and all of them
\* when no date range applies; tag "grief" saved at index 0 alone gives [0] under
\* the tag filter "grief", and the bookmark {2} gives [2] under bookmark-only
C3_FilteredListIsConjunction ==
    (Displaying \/ Stopped) =>
        /\ StrictlyAscending(filtered_indices)
        /\ Elems(filtered_indices) \subseteq Matching
        /\ ~RangeApplies(date_range) => Elems(filtered_indices) = Matching
        /\ ( /\ tag_filter = "grief" /\ search_keyword = <<>> /\ ~show_only_bookmarked
             /\ ~RangeApplies(date_range)
             /\ {i \in DOMAIN annotations : annotations[i].tag = "grief"} = {0} )
           => filtered_indices = <<0>>
        /\ ( /\ tag_filter = "All" /\ search_keyword = <<>> /\ show_only_bookmarked
             /\ ~RangeApplies(date_range)
             /\ bookmarks = {2} )
           => filtered_indices = <<2>>

\* C3 witness: three records, "grief" at index 0 and "Grief" at index 1, index 2
\* bookmarked, and the run under the tag filter "grief" displays [0]
C3_Witness ==
    /\ Displaying
    /\ Len(data) = 3
    /\ tag_filter = "grief"
    /\ DOMAIN annotations = {0, 1}
    /\ annotations[1].tag = "Grief"
    /\ bookmarks = {2}
    /\ filtered_indices = <<0>>

\* the range a date range text asks for
RangeStart(dr) == strptime(strip(split(dr)[1])).t
RangeEnd(dr) == strptime(strip(split(dr)[2])).t

\* the filtered list of the current criteria without the date range
WithoutDateRange ==
    FilteredIndices(data, annotations, bookmarks, tag_filter, search_keyword,
                    <<>>, show_only_bookmarked)

\* C4 (as claimed): when the range text is two YYYY/MM/DD tokens around a single
\* "-", the filtered list keeps exactly the records whose parsed tweetDate (a
\* trailing "Z" read as UTC) lies in [start, end]; otherwise it is the list
\* obtained without a date range
C4_DateRangeKeepsExactlyInRange ==
    (Displaying \/ Stopped) =>
        IF RangeApplies(date_range)
        THEN filtered_indices =
                SelectSeq(WithoutDateRange, LAMBDA i :
                    /\ RangeStart(date_range) <= safe_parse_date(data[i + 1]).t
                    /\ safe_parse_date(data[i + 1]).t <= RangeEnd(date_range))
        ELSE filtered_indices = WithoutDateRange

\* a record's date parses
Parseable(tweet) == safe_parse_date(tweet).t > 0

\* d is raw reordered by ascending date key, unparseable dates first, records of
\* equal key in their order in raw
StableSorted(raw, d) ==
    /\ Len(d) = Len(raw)
    /\ \E perm \in [1..Len(raw) -> 1..Len(raw)] :
        /\ \A a, b \in 1..Len(raw) : a # b => perm[a] # perm[b]
        /\ \A k \in 1..Len(raw) : d[k] = raw[perm[k]]
        /\ \A k, l \in 1..Len(raw) :
            k < l =>
                /\ safe_parse_date(d[k]).t <= safe_parse_date(d[l]).t
                /\ Parseable(d[k]) => Parseable(d[l])
                /\ safe_parse_date(d[k]).t = safe_parse_date(d[l]).t => perm[k] < perm[l]

\* C5 (as claimed): for every loaded collection the sort completes without
\* raising and gives a stable order, unparseable dates first, then ascending
C5_SortCompletesStableTotal ==
    pc # "load" => (pc # "crashed" /\ StableSorted(tweets_json, data))

\* C6 (as claimed): reloading the exported file gives a mapping identical to the
\* annotation store it was exported from: same keys, same values
C6_ExportRoundTrip ==
    (export_file.written /\ export_file.members = json_dump(annotations)) =>
        json_load(export_file.members) = Items(annotations)

\* C7: every key of the annotation store and every bookmark is a record index
C7_EntriesAreRecordIndices ==
    /\ DOMAIN annotations \subseteq 0..(Len(data) - 1)
    /\ bookmarks \subseteq 0..(Len(data) - 1)

\* C7 witness: both records annotated and bookmarked
C7_Witness ==
    /\ DOMAIN annotations = {0, 1}
    /\ bookmarks = {0, 1}

\* the position of i in f
PositionIn(f, i) == CHOOSE p \in 0..(Len(f) - 1) : f[p + 1] = i
Max(a, b) == IF a > b THEN a ELSE b
Min(a, b) == IF a < b THEN a ELSE b

\* C8: with F the filtered list of the run and p the position of the cursor in F,
\* previous moves the cursor to F[max(0, p-1)], next to F[min(len(F)-1, p+1)],
\* random to a member of F; previous at p = 0 and next at the last position leave
\* it unchanged, and the cursor stays in F
C8_NavigationClamps ==
    [][ LET f == filtered_indices
            p == PositionIn(f, index)
        IN  /\ Handling("previous") =>
                /\ index' = f[Max(0, p - 1) + 1]
                /\ p = 0 => index' = index
            /\ Handling("next") =>
                /\ index' = f[Min(Len(f) - 1, p + 1) + 1]
                /\ p = Len(f) - 1 => index' = index
            /\ Handling("random") => index' \in Elems(f)
            /\ (Handling("previous") \/ Handling("next") \/ Handling("random")) =>
                InList(index', f)
      ]_vars

\* C8 witness: next is handled with the cursor at the last of two positions
C8_Witness ==
    /\ Handling("next")
    /\ Len(filtered_indices) = 2
    /\ index = filtered_indices[2]

\* C9: the annotation store changes only in the save handler, which writes the
\* entry of the cursor index from the entered tag, note and user and the record's
\* content, date and url, and leaves every other entry, the bookmarks and the
\* cursor as they were
C9_OnlySaveWritesAnnotations ==
    [][ /\ annotations' # annotations => Handling("save")
        /\ Handling("save") =>
            /\ DOMAIN annotations' = DOMAIN annotations \cup {index}
            /\ annotations'[index] =
                  [tag |-> entered.tag, note |-> entered.note,
                   content |-> data[index + 1].content,
                   date |-> DisplayedDate(data[index + 1]),
                   user |-> entered.user,
                   url |-> data[index + 1].tweetUrl]
            /\ \A j \in DOMAIN annotations \ {index} : annotations'[j] = annotations[j]
            /\ bookmarks' = bookmarks
            /\ index' = index
      ]_vars

\* C9 witness: save is handled with an empty tag and note over an annotation
\* tagged "grief", while the other record is annotated too
C9_Witness ==
    /\ Handling("save")
    /\ DOMAIN annotations = {0, 1}
    /\ annotations[index].tag = "grief"
    /\ entered.tag = ""
    /\ entered.note = ""

\* C10 (as claimed): a bookmark action that directly follows a bookmark action,
\* with the filter widgets untouched, leaves the bookmark set as it was before
\* the first of the two
C10_TwoTogglesRestore ==
    [][ (Handling("bookmark") /\ toggled # {}) => toggled = {bookmarks'} ]_vars

\* C10 (amended): the bookmark action toggles the membership of the cursor index
\* of its run and of no other index; a bookmark action that directly follows one
\* restores the set when bookmark-only is off, and removes a second bookmark
\* when bookmark-only is on
C10_ToggleOfRunCursor ==
    [][ Handling("bookmark") =>
            /\ bookmarks' = IF index \in bookmarks
                            THEN bookmarks \ {index}
                            ELSE bookmarks \cup {index}
            /\ (toggled # {} /\ ~show_only_bookmarked) => toggled = {bookmarks'}
            /\ (toggled # {} /\ show_only_bookmarked) =>
                  \A before \in toggled :
                      /\ bookmarks' \subseteq before
                      /\ Cardinality(before \ bookmarks') = 2
      ]_vars

\* C10 witness: the second of two successive bookmark actions is handled with
\* bookmark-only off
C10_Witness ==
    /\ Handling("bookmark")
    /\ toggled # {}
    /\ ~show_only_bookmarked

====
